---- MODULE Spec2Model ----
(***************************************************************************)
(* Model of src/src/midi_to_audio.py: midi_to_audio_buffer (event timing,  *)
(* note scheduling, note rendering, track mixing) and                      *)
(* collect_midis_to_audio (master mixing).                                 *)
(*                                                                         *)
(* Representation of the floating-point quantities:                        *)
(*  - a time is an integer number of time units; one second of a source    *)
(*    with ticks_per_beat = tpb is Second(tpb) = tpb * 10^6 units, so that  *)
(*    tick * tempo * 1e-6 / tpb seconds is exactly tick * tempo units;      *)
(*    rounding errors of the floating-point operations are not modelled;   *)
(*  - an audio sample is an exact rational <<n, d>> in lowest terms, d > 0; *)
(*    <<s, 0>> stands for the non-finite result of a division by zero.      *)
(***************************************************************************)
EXTENDS Integers, Sequences, FiniteSets, TLC

VARIABLES
    pc,             \* position in collect_midis_to_audio / midi_to_audio_buffer
    exception,      \* the exception raised, "none" while none was raised
    sample_rate,    \* collect_midis_to_audio's sample_rate argument
    n_sources,      \* len(sources)
    src_i,          \* number of sources already rendered
    n_msgs,         \* MIDI messages consumed so far in the run
    audio_buffers,  \* collect_midis_to_audio: the rendered tracks
    max_length,     \* collect_midis_to_audio: longest track so far
    master_buffer,  \* collect_midis_to_audio: the master mix
    exported,       \* the final mix was handed to the codec
    tempo,          \* midi_to_audio_buffer: tempo argument (BPM)
    ticks_per_beat, \* mid.ticks_per_beat
    sample_audio,   \* the loaded sample
    current_time,   \* running clock, in time units
    msg,            \* the loop variable of the event loop
    active_notes,   \* dict: pitch -> list of pending onset times
    note_events,    \* list of <<note, start_time, end_time>>
    audio_buffer,   \* the track buffer
    note_i,         \* index of the note event being rendered
    shifted_audio,  \* result of the last pitch_shift
    processed_audio,\* the fitted segment of the current note
    dsp_calls,      \* number of pitch_shift / time_stretch calls made
    segments,       \* PlaceSpec: the rendered segments to place
    placed,         \* PlaceSpec: indices of the segments already placed
    initial_length  \* PlaceSpec: length the track buffer was allocated with

collectVars == <<sample_rate, n_sources, src_i, audio_buffers, max_length,
                 master_buffer, exported>>
sourceVars  == <<tempo, ticks_per_beat, sample_audio>>
schedVars   == <<current_time, msg, active_notes, note_events>>
renderVars  == <<audio_buffer, note_i, shifted_audio, processed_audio, dsp_calls>>
placeVars   == <<segments, placed, initial_length>>
vars == <<pc, exception, n_msgs, collectVars, sourceVars, schedVars,
          renderVars, placeVars>>

----------------------------------------------------------------------------
\* Bounds of the model

MaxMsgs    == 4     \* MIDI messages in a run, all sources together
MaxSegs    == 3     \* PlaceSpec: segments to place

\* Input sets
SourceCounts == {1, 2}          \* len(sources)
Pitches      == {60, 64}
Deltas       == {0, 1}          \* msg.time, in ticks
Tempos       == {90, 120}       \* BPM
TicksPerBeats == {1, 2}
SampleRates  == {1, 2}
SampleLens   == {2}             \* len(sample_audio)
Amps         == {-1, 1}         \* amplitudes of the waveforms the DSP returns
SegStarts    == {0, 1}          \* PlaceSpec: start_sample of a segment
SegLens      == {1, 2}          \* PlaceSpec: len(processed_audio)
InitialLens  == {0, 2}          \* PlaceSpec: len(audio_buffer) before placing

\* Program constants
DefaultMaxTime == 60
GuardSeconds   == 1
MicrosPerSecond == 1000000

NoMsg == [type |-> "none", note |-> 0, velocity |-> 0, time |-> 0]

Messages ==
    [type : {"note_on"}, note : Pitches, velocity : {0, 64}, time : Deltas]
    \cup [type : {"note_off"}, note : Pitches, velocity : {0}, time : Deltas]
    \cup [type : {"set_tempo"}, note : {0}, velocity : {0}, time : Deltas]

----------------------------------------------------------------------------
\* Arithmetic

Abs(x) == IF x < 0 THEN -x ELSE x
Max2(a, b) == IF a > b THEN a ELSE b
Min2(a, b) == IF a < b THEN a ELSE b

RECURSIVE GCD(_, _)
GCD(a, b) == IF b = 0 THEN a ELSE GCD(b, a % b)

\* the rational n / d (d > 0) in lowest terms
Rat(n, d) == LET g == GCD(Abs(n), d) IN <<n \div g, d \div g>>
Zero == <<0, 1>>
IsFinite(x) == x[2] > 0
RAdd(x, y) == Rat(x[1] * y[2] + y[1] * x[2], x[2] * y[2])
RAbs(x) == <<Abs(x[1]), x[2]>>
RLess(x, y) == x[1] * y[2] < y[1] * x[2]
Sign(n) == IF n > 0 THEN 1 ELSE IF n < 0 THEN -1 ELSE 0
\* x / y for y >= 0; a division by zero gives nan (<<0,0>>) or inf (<<+-1,0>>)
RDiv(x, y) == IF y[1] = 0 THEN <<Sign(x[1]), 0>>
              ELSE Rat(x[1] * y[2], x[2] * y[1])

\* Python's round() of n / d (n >= 0, d > 0): half to even
Round(n, d) ==
    LET q == n \div d
        r == n % d
    IN  IF 2 * r < d THEN q
        ELSE IF 2 * r > d THEN q + 1
        ELSE IF q % 2 = 0 THEN q ELSE q + 1

\* np.zeros(n)
Zeros(n) == [i \in 1..n |-> Zero]

\* a waveform of n samples, all of amplitude a
Wave(n, a) == [i \in 1..n |-> <<a, 1>>]

----------------------------------------------------------------------------
\* EventTimer (midi_to_audio_buffer, lines 34-48)

\* time units in one second, for a source with this ticks_per_beat
Second(tpb) == tpb * MicrosPerSecond

\* mido.bpm2tempo(bpm) = int(round(60 * 1e6 / bpm)): microseconds per beat
bpm2tempo(bpm) == Round(60 * MicrosPerSecond, bpm)

\* tick2second multiplying by ticks_per_beat instead of dividing by it
tick2secondTimesTpb(tick, tpb, tempo_us) == tick * tempo_us * tpb * tpb

\* mido.tick2second(tick, ticks_per_beat, tempo) = tick * tempo * 1e-6 /
\* ticks_per_beat seconds, which is tick * tempo units of 1 / Second(tpb) s
tick2second(tick, tpb, tempo_us) == tick * tempo_us

\* fixed_tempo = mido.bpm2tempo(tempo)
fixed_tempo == bpm2tempo(tempo)

----------------------------------------------------------------------------
\* NoteScheduler (midi_to_audio_buffer, lines 42-59)

IsNoteOn(m)  == m.type = "note_on" /\ m.velocity > 0
IsRelease(m) == m.type = "note_off" \/ (m.type = "note_on" /\ m.velocity = 0)

\* active_notes.setdefault(note, []).append(t)
SetDefaultAppend(an, note, t) ==
    IF note \in DOMAIN an THEN [an EXCEPT ![note] = Append(@, t)]
    ELSE an @@ (note :> <<t>>)

\* list.pop(): the newest onset is popped instead of the oldest
PopLast(queue) == [value |-> queue[Len(queue)],
                   rest  |-> SubSeq(queue, 1, Len(queue) - 1)]

\* list.pop(0): the popped value and the list that is left
Pop0(queue) == [value |-> Head(queue), rest |-> Tail(queue)]

\* msg.note in active_notes and active_notes[msg.note]
HasPending(an, note) == note \in DOMAIN an /\ an[note] # <<>>

\* a release that finds nothing pending emits a zero-length instance
ReleaseOrphanEmits(an, ne, note, t) ==
    IF note \in DOMAIN an /\ an[note] # <<>>
    THEN [active_notes |-> [an EXCEPT ![note] = Tail(@)],
          note_events  |-> Append(ne, <<note, Head(an[note]), t>>)]
    ELSE [active_notes |-> an, note_events |-> Append(ne, <<note, t, t>>)]

\* lines 57-59: the effect of a release of `note` at time t
Release(an, ne, note, t) ==
    IF HasPending(an, note)
    THEN LET p == Pop0(an[note])
         IN  [active_notes |-> [an EXCEPT ![note] = p.rest],
              note_events  |-> Append(ne, <<note, p.value, t>>)]
    ELSE [active_notes |-> an, note_events |-> ne]

\* the latest start time instead of the latest end time
RECURSIVE MaxStart(_)
MaxStart(ne) == IF Len(ne) = 1 THEN ne[1][2]
                ELSE Max2(ne[1][2], MaxStart(Tail(ne)))

RECURSIVE MaxEnd(_)
MaxEnd(ne) == IF Len(ne) = 1 THEN ne[1][3]
              ELSE Max2(ne[1][3], MaxEnd(Tail(ne)))

\* lines 62-65: max_time, in time units
MaxTime(ne, tpb) ==
    IF ne # <<>> THEN MaxEnd(ne) ELSE DefaultMaxTime * Second(tpb)

\* line 68: audio_length = int(sample_rate * (max_time + 1))
AudioLength(max_time, sr, tpb) ==
    (sr * (max_time + GuardSeconds * Second(tpb))) \div Second(tpb)

----------------------------------------------------------------------------
\* NoteRenderer (midi_to_audio_buffer, lines 72-92)

\* only a negative duration is skipped
IsNegative(duration) == duration < 0

\* line 74: if duration <= 0: continue
IsSkipped(duration) == duration <= 0

\* lines 83, 88: target_length = int(duration * sample_rate)
TargetLength(duration, sr, tpb) == (duration * sr) \div Second(tpb)

\* line 82: sample_duration > duration, sample_duration = len / sample_rate
SampleIsLonger(len, duration, sr, tpb) == len * Second(tpb) > duration * sr

\* line 84: shifted_audio[:target_length]
Truncated(shifted, target) == SubSeq(shifted, 1, Min2(target, Len(shifted)))

\* the stretched waveform is trimmed but never padded
TrimOnly(stretched, target) ==
    IF Len(stretched) > target THEN SubSeq(stretched, 1, target)
    ELSE stretched

\* lines 89-92: trim or zero-pad the stretched waveform to target_length
TrimOrPad(stretched, target) ==
    IF Len(stretched) > target THEN SubSeq(stretched, 1, target)
    ELSE stretched \o Zeros(target - Len(stretched))

\* lengths librosa.effects.time_stretch may return for a wanted length
StretchLens(target) == {n \in {target - 1, target, target + 1} : n >= 0}

----------------------------------------------------------------------------
\* TrackMixer (midi_to_audio_buffer, lines 94-104)

\* line 94: start_sample = int(start_time * sample_rate)
StartSample(start_time, sr, tpb) == (start_time * sr) \div Second(tpb)

\* the segment overwrites the buffer instead of being added to it
PlaceOverwrite(buf, start, seg) ==
    LET end   == start + Len(seg)
        grown == IF end > Len(buf) THEN buf \o Zeros(end - Len(buf)) ELSE buf
    IN  [i \in 1..Len(grown) |->
            IF start < i /\ i <= end THEN seg[i - start] ELSE grown[i]]

\* lines 95-99: grow the buffer if needed, then add the segment at start
Place(buf, start, seg) ==
    LET end   == start + Len(seg)
        grown == IF end > Len(buf) THEN buf \o Zeros(end - Len(buf)) ELSE buf
    IN  [i \in 1..Len(grown) |->
            IF start < i /\ i <= end THEN RAdd(grown[i], seg[i - start])
            ELSE grown[i]]

\* np.max(np.abs(buf)), buf not empty
Peak(buf) ==
    LET S == {RAbs(buf[i]) : i \in DOMAIN buf}
    IN  CHOOSE m \in S : \A x \in S : ~RLess(m, x)

\* normalization without the guard against a silent buffer
NormalizeNoGuard(buf) ==
    LET S == {RAbs(buf[i]) : i \in DOMAIN buf}
        m == CHOOSE y \in S : \A x \in S : ~RLess(y, x)
    IN  [i \in 1..Len(buf) |-> RDiv(buf[i], m)]

\* lines 101-102 and 146-147: peak normalization
Normalize(buf) ==
    IF RLess(Zero, Peak(buf))
    THEN LET m == Peak(buf) IN [i \in 1..Len(buf) |-> RDiv(buf[i], m)]
    ELSE buf

----------------------------------------------------------------------------
\* MasterMixer (collect_midis_to_audio, lines 125-147)

\* the zeros are put in front of the track instead of behind it
PadFront(audio, n) ==
    IF Len(audio) < n THEN Zeros(n - Len(audio)) \o audio ELSE audio

\* lines 142-143: np.pad(audio, (0, max_length - len(audio)))
PadTo(audio, n) ==
    IF Len(audio) < n THEN audio \o Zeros(n - Len(audio)) ELSE audio

RECURSIVE SumInto(_, _, _, _)
SumInto(master, bufs, k, n) ==
    IF k > Len(bufs) THEN master
    ELSE LET audio == PadTo(bufs[k], n)
         IN  SumInto([i \in 1..Len(master) |-> RAdd(master[i], audio[i])],
                     bufs, k + 1, n)

\* lines 140-144: master_buffer = zeros(max_length); += every padded track
MasterSum(bufs, n) == SumInto(Zeros(n), bufs, 1, n)

\* the exception is swallowed and the code carries on at `resume`
OnErrorResume(resume) == resume

\* no try/except anywhere: an exception unwinds to the caller of
\* collect_midis_to_audio instead of resuming at `resume`
OnError(resume) == "raised"

----------------------------------------------------------------------------
\* The state after construction: collect_midis_to_audio is entered with a
\* non-empty sources list

NoLocals ==
    /\ tempo = 0 /\ ticks_per_beat = 0 /\ sample_audio = <<>>
    /\ current_time = 0 /\ msg = NoMsg
    /\ active_notes = <<>> /\ note_events = <<>>
    /\ audio_buffer = <<>> /\ note_i = 0
    /\ shifted_audio = <<>> /\ processed_audio = <<>> /\ dsp_calls = 0

Init ==
    /\ pc = "collect"
    /\ exception = "none"
    /\ sample_rate \in SampleRates
    /\ n_sources \in SourceCounts
    /\ src_i = 0
    /\ n_msgs = 0
    /\ audio_buffers = <<>>
    /\ max_length = 0
    /\ master_buffer = <<>>
    /\ exported = FALSE
    /\ NoLocals
    /\ segments = <<>>
    /\ placed = {}
    /\ initial_length = 0

\* the note event being rendered, and its duration (line 73)
Note == note_events[note_i]
Duration == Note[3] - Note[2]
HasNote == note_i <= Len(note_events)

----------------------------------------------------------------------------
\* collect_midis_to_audio lines 128-135, midi_to_audio_buffer lines 27-43:
\* the next source is taken, its sample and MIDI file are loaded
StartSource ==
    /\ pc = "collect"
    /\ src_i < n_sources
    /\ \E t \in Tempos, tpb \in TicksPerBeats, len \in SampleLens :
          /\ tempo' = t
          /\ ticks_per_beat' = tpb
          /\ sample_audio' = Wave(len, 1)
    /\ current_time' = 0
    /\ active_notes' = <<>>
    /\ note_events' = <<>>
    /\ msg' = NoMsg
    /\ pc' = "events"
    /\ UNCHANGED <<exception, n_msgs, collectVars, renderVars, placeVars>>

\* librosa.load or mido.MidiFile raises
LoadFails ==
    /\ pc = "collect"
    /\ src_i < n_sources
    /\ exception' = "load"
    /\ pc' = OnError("collect")
    /\ UNCHANGED <<n_msgs, collectVars, sourceVars, schedVars, renderVars,
                   placeVars>>

\* lines 45-59: one iteration of the event loop, on message m
ProcessMsg(m) ==
    /\ pc = "events"
    /\ n_msgs < MaxMsgs
    /\ n_msgs' = n_msgs + 1
    /\ msg' = m
    /\ current_time' =
          current_time + tick2second(m.time, ticks_per_beat, fixed_tempo)
    /\ IF m.type = "set_tempo"
       THEN UNCHANGED <<active_notes, note_events>>
       ELSE IF IsNoteOn(m)
       THEN /\ active_notes' =
                  SetDefaultAppend(active_notes, m.note, current_time')
            /\ UNCHANGED note_events
       ELSE IF IsRelease(m)
       THEN LET r == Release(active_notes, note_events, m.note, current_time')
            IN  /\ active_notes' = r.active_notes
                /\ note_events' = r.note_events
       ELSE UNCHANGED <<active_notes, note_events>>
    /\ UNCHANGED <<pc, exception, collectVars, sourceVars, renderVars,
                   placeVars>>

\* lines 61-69: the stream is exhausted, the track buffer is allocated.
\* current_time, msg and active_notes are not read after the loop (notes
\* still pending are dropped), so they are cleared here.
EndOfTrack ==
    /\ pc = "events"
    /\ current_time' = 0
    /\ msg' = NoMsg
    /\ active_notes' = <<>>
    /\ audio_buffer' =
          Zeros(AudioLength(MaxTime(note_events, ticks_per_beat),
                            sample_rate, ticks_per_beat))
    /\ note_i' = 1
    /\ pc' = "notes"
    /\ UNCHANGED <<exception, n_msgs, collectVars, sourceVars, note_events,
                   shifted_audio, processed_audio, dsp_calls, placeVars>>

\* lines 72-75: a note of duration <= 0 is skipped
SkipNote ==
    /\ pc = "notes"
    /\ HasNote
    /\ IsSkipped(Duration)
    /\ note_i' = note_i + 1
    /\ UNCHANGED <<pc, exception, n_msgs, collectVars, sourceVars, schedVars,
                   audio_buffer, shifted_audio, processed_audio, dsp_calls,
                   placeVars>>

\* lines 78-79: librosa.effects.pitch_shift returns a waveform as long as
\* the sample (it fixes the length of its result to that of its input)
PitchShift ==
    /\ pc = "notes"
    /\ HasNote
    /\ ~IsSkipped(Duration)
    /\ \E a \in Amps : shifted_audio' = Wave(Len(sample_audio), a)
    /\ dsp_calls' = dsp_calls + 1
    /\ pc' = "fit"
    /\ UNCHANGED <<exception, n_msgs, collectVars, sourceVars, schedVars,
                   audio_buffer, note_i, processed_audio, placeVars>>

\* line 79: librosa.effects.pitch_shift raises
PitchShiftFails ==
    /\ pc = "notes"
    /\ HasNote
    /\ ~IsSkipped(Duration)
    /\ dsp_calls' = dsp_calls + 1
    /\ exception' = "pitch_shift"
    /\ pc' = OnError("normalize")
    /\ UNCHANGED <<n_msgs, collectVars, sourceVars, schedVars, audio_buffer,
                   note_i, shifted_audio, processed_audio, placeVars>>

\* lines 81-84: the shifted sample is longer than the note: truncate
Truncate ==
    /\ pc = "fit"
    /\ SampleIsLonger(Len(shifted_audio), Duration, sample_rate, ticks_per_beat)
    /\ processed_audio' =
          Truncated(shifted_audio,
                    TargetLength(Duration, sample_rate, ticks_per_beat))
    /\ pc' = "place"
    /\ UNCHANGED <<exception, n_msgs, collectVars, sourceVars, schedVars,
                   audio_buffer, note_i, shifted_audio, dsp_calls, placeVars>>

\* lines 85-92: otherwise time-stretch, then trim or pad
TimeStretch ==
    /\ pc = "fit"
    /\ ~SampleIsLonger(Len(shifted_audio), Duration, sample_rate, ticks_per_beat)
    /\ LET target == TargetLength(Duration, sample_rate, ticks_per_beat)
       IN  \E n \in StretchLens(target), a \in Amps :
              processed_audio' = TrimOrPad(Wave(n, a), target)
    /\ dsp_calls' = dsp_calls + 1
    /\ pc' = "place"
    /\ UNCHANGED <<exception, n_msgs, collectVars, sourceVars, schedVars,
                   audio_buffer, note_i, shifted_audio, placeVars>>

\* line 87: librosa.effects.time_stretch raises
TimeStretchFails ==
    /\ pc = "fit"
    /\ ~SampleIsLonger(Len(shifted_audio), Duration, sample_rate, ticks_per_beat)
    /\ dsp_calls' = dsp_calls + 1
    /\ exception' = "time_stretch"
    /\ pc' = OnError("normalize")
    /\ UNCHANGED <<n_msgs, collectVars, sourceVars, schedVars, audio_buffer,
                   note_i, shifted_audio, processed_audio, placeVars>>

\* lines 94-99: the segment is added into the track buffer
PlaceNote ==
    /\ pc = "place"
    /\ audio_buffer' =
          Place(audio_buffer,
                StartSample(Note[2], sample_rate, ticks_per_beat),
                processed_audio)
    /\ note_i' = note_i + 1
    /\ pc' = "notes"
    /\ UNCHANGED <<exception, n_msgs, collectVars, sourceVars, schedVars,
                   shifted_audio, processed_audio, dsp_calls, placeVars>>

\* line 72: the note loop is exhausted
EndNotes ==
    /\ pc = "notes"
    /\ ~HasNote
    /\ pc' = "normalize"
    /\ UNCHANGED <<exception, n_msgs, collectVars, sourceVars, schedVars,
                   renderVars, placeVars>>

\* lines 101-102: peak normalization of the track
NormalizeTrack ==
    /\ pc = "normalize"
    /\ audio_buffer' = Normalize(audio_buffer)
    /\ pc' = "return"
    /\ UNCHANGED <<exception, n_msgs, collectVars, sourceVars, schedVars,
                   note_i, shifted_audio, processed_audio, dsp_calls, placeVars>>

\* line 104 and collect_midis_to_audio lines 135-137: the track is returned
\* and collected; the locals of midi_to_audio_buffer are gone
ReturnTrack ==
    /\ pc = "return"
    /\ audio_buffers' = Append(audio_buffers, audio_buffer)
    /\ max_length' = Max2(max_length, Len(audio_buffer))
    /\ src_i' = src_i + 1
    /\ tempo' = 0 /\ ticks_per_beat' = 0 /\ sample_audio' = <<>>
    /\ current_time' = 0 /\ msg' = NoMsg
    /\ active_notes' = <<>> /\ note_events' = <<>>
    /\ audio_buffer' = <<>> /\ note_i' = 0
    /\ shifted_audio' = <<>> /\ processed_audio' = <<>> /\ dsp_calls' = 0
    /\ pc' = "collect"
    /\ UNCHANGED <<exception, n_msgs, sample_rate, n_sources, master_buffer,
                   exported, placeVars>>

\* collect_midis_to_audio lines 140-144: every track is padded and summed
MasterMix ==
    /\ pc = "collect"
    /\ src_i = n_sources
    /\ master_buffer' = MasterSum(audio_buffers, max_length)
    /\ pc' = "master_normalize"
    /\ UNCHANGED <<exception, n_msgs, sample_rate, n_sources, src_i,
                   audio_buffers, max_length, exported, sourceVars, schedVars,
                   renderVars, placeVars>>

\* lines 146-147: peak normalization of the master mix
MasterNormalize ==
    /\ pc = "master_normalize"
    /\ master_buffer' = Normalize(master_buffer)
    /\ pc' = "export"
    /\ UNCHANGED <<exception, n_msgs, sample_rate, n_sources, src_i,
                   audio_buffers, max_length, exported, sourceVars, schedVars,
                   renderVars, placeVars>>

\* lines 149-155: the mix is written and exported
Export ==
    /\ pc = "export"
    /\ exported' = TRUE
    /\ pc' = "done"
    /\ UNCHANGED <<exception, n_msgs, sample_rate, n_sources, src_i,
                   audio_buffers, max_length, master_buffer, sourceVars,
                   schedVars, renderVars, placeVars>>

Next ==
    \/ StartSource
    \/ LoadFails
    \/ \E m \in Messages : ProcessMsg(m)
    \/ EndOfTrack
    \/ SkipNote
    \/ PitchShift
    \/ PitchShiftFails
    \/ Truncate
    \/ TimeStretch
    \/ TimeStretchFails
    \/ PlaceNote
    \/ EndNotes
    \/ NormalizeTrack
    \/ ReturnTrack
    \/ MasterMix
    \/ MasterNormalize
    \/ Export

Spec == Init /\ [][Next]_vars

----------------------------------------------------------------------------
\* TrackMixer's placement (lines 94-99) applied to arbitrary segments in an
\* arbitrary order

Waves(n) == [1..n -> {<<a, 1>> : a \in Amps}]
SegmentSet == [start : SegStarts,
               samples : UNION {Waves(n) : n \in SegLens}]

PlaceInit ==
    /\ pc = "place"
    /\ exception = "none"
    /\ sample_rate = 1
    /\ n_sources = 1
    /\ src_i = 0
    /\ n_msgs = 0
    /\ audio_buffers = <<>>
    /\ max_length = 0
    /\ master_buffer = <<>>
    /\ exported = FALSE
    /\ tempo = 0 /\ ticks_per_beat = 0 /\ sample_audio = <<>>
    /\ current_time = 0 /\ msg = NoMsg
    /\ active_notes = <<>> /\ note_events = <<>>
    /\ note_i = 0
    /\ shifted_audio = <<>> /\ processed_audio = <<>> /\ dsp_calls = 0
    /\ initial_length \in InitialLens
    /\ audio_buffer = Zeros(initial_length)
    /\ segments \in [1..MaxSegs -> SegmentSet]
    /\ placed = {}

\* lines 95-99 on segment k, any segment not placed yet
PlaceSegment(k) ==
    /\ pc = "place"
    /\ k \in DOMAIN segments
    /\ k \notin placed
    /\ processed_audio' = segments[k].samples
    /\ audio_buffer' = Place(audio_buffer, segments[k].start, processed_audio')
    /\ placed' = placed \cup {k}
    /\ UNCHANGED <<pc, exception, n_msgs, collectVars, sourceVars, schedVars,
                   note_i, shifted_audio, dsp_calls, segments, initial_length>>

PlaceNext == \E k \in 1..MaxSegs : PlaceSegment(k)

PlaceSpec == PlaceInit /\ [][PlaceNext]_vars

----------------------------------------------------------------------------
\* Properties

\* a step of the event loop (one message consumed)
IsMsgStep == pc = "events" /\ pc' = "events" /\ n_msgs' = n_msgs + 1

\* the pending onsets of pitch p ( <<>> when p has no entry)
Pending(an, p) == IF p \in DOMAIN an THEN an[p] ELSE <<>>

\* start (c = 2) or end (c = 3) times of the emitted instances of pitch p,
\* in emission order
RECURSIVE TimesOf(_, _, _)
TimesOf(ne, p, c) ==
    IF ne = <<>> THEN <<>>
    ELSE (IF ne[1][1] = p THEN <<ne[1][c]>> ELSE <<>>) \o TimesOf(Tail(ne), p, c)

NonDecreasing(q) == \A i, j \in DOMAIN q : i < j => q[i] <= q[j]

\* for every pitch, the onsets already paired (in pairing order) followed
\* by the onsets still pending are in arrival order, and so are the releases
PairsInOrder ==
    \A p \in Pitches :
        /\ NonDecreasing(TimesOf(note_events, p, 2) \o Pending(active_notes, p))
        /\ NonDecreasing(TimesOf(note_events, p, 3))

\* what one message does to the queues and to the emitted instances
FifoStep ==
    IsMsgStep =>
        LET p == msg'.note
            q == Pending(active_notes, p)
        IN  /\ IsNoteOn(msg') =>
                /\ Pending(active_notes', p) = Append(q, current_time')
                /\ note_events' = note_events
            /\ (IsRelease(msg') /\ q # <<>>) =>
                /\ note_events' = Append(note_events, <<p, q[1], current_time'>>)
                /\ Pending(active_notes', p) = Tail(q)
            /\ \A o \in Pitches \ {p} :
                  Pending(active_notes', o) = Pending(active_notes, o)

\* C1: releases are paired with onsets in FIFO order: a release of p that
\* finds an onset pending emits (p, oldest pending onset, current clock) and
\* removes that onset, a note-on appends the clock to p's queue, and the
\* emitted pairs of a pitch never cross.
C1_FifoPairing == [](PairsInOrder) /\ [][FifoStep]_vars

\* C1 witness: two overlapping notes of one pitch, on on off off at four
\* different times, paired first with first and second with second
C1_Witness ==
    /\ pc = "events"
    /\ Len(note_events) = 2
    /\ note_events[1][1] = note_events[2][1]
    /\ note_events[1][2] < note_events[2][2]
    /\ note_events[2][2] < note_events[1][3]
    /\ note_events[1][3] < note_events[2][3]

\* C2: a release at a pitch with no pending onset emits nothing, raises
\* nothing and leaves every queue and the emitted instances unchanged.
C2_OrphanReleaseIgnored ==
    [][(IsMsgStep /\ IsRelease(msg')
          /\ Pending(active_notes, msg'.note) = <<>>) =>
        /\ note_events' = note_events
        /\ active_notes' = active_notes
        /\ exception' = "none"]_vars

\* C2 witness: an orphan release was just consumed, nothing was emitted and
\* another pitch still has its onset pending
C2_Witness ==
    /\ pc = "events"
    /\ IsRelease(msg)
    /\ note_events = <<>>
    /\ Pending(active_notes, msg.note) = <<>>
    /\ \E o \in Pitches \ {msg.note} : Len(Pending(active_notes, o)) = 1

One == <<1, 1>>
InUnitRange(buf) ==
    \A i \in DOMAIN buf : IsFinite(buf[i]) /\ ~RLess(One, RAbs(buf[i]))
IsSilent(buf) == \A i \in DOMAIN buf : buf[i] = Zero

\* C4: the track normalization leaves every sample in [-1, 1]; a non-silent
\* buffer comes out with peak exactly 1, a silent one comes out unchanged.
C4_TrackNormalized ==
    [][(pc = "normalize" /\ pc' = "return") =>
        /\ InUnitRange(audio_buffer')
        /\ Len(audio_buffer') = Len(audio_buffer)
        /\ ~IsSilent(audio_buffer) =>
              \E i \in DOMAIN audio_buffer' : RAbs(audio_buffer'[i]) = One
        /\ IsSilent(audio_buffer) => audio_buffer' = audio_buffer]_vars

\* C4 witness: a normalized track that was divided by a peak of 2
C4_Witness ==
    /\ pc = "return"
    /\ \E i \in DOMAIN audio_buffer : RAbs(audio_buffer[i]) = <<1, 2>>
    /\ \E i \in DOMAIN audio_buffer : RAbs(audio_buffer[i]) = One

RECURSIVE LongestOf(_)
LongestOf(bufs) ==
    IF bufs = <<>> THEN 0 ELSE Max2(Len(bufs[1]), LongestOf(Tail(bufs)))

\* the sum at index i of the tracks that are longer than i - 1 samples
RECURSIVE CoveringSum(_, _)
CoveringSum(bufs, i) ==
    IF bufs = <<>> THEN Zero
    ELSE RAdd(IF Len(bufs[1]) >= i THEN bufs[1][i] ELSE Zero,
              CoveringSum(Tail(bufs), i))

\* C5: the summed master buffer is as long as the longest track and holds
\* at every index the sum of the tracks that reach that index.
C5_MasterSum ==
    pc = "master_normalize" =>
        /\ Len(master_buffer) = LongestOf(audio_buffers)
        /\ \A i \in DOMAIN master_buffer :
              master_buffer[i] = CoveringSum(audio_buffers, i)

\* C5 witness: two tracks of different lengths, the shorter one audible
C5_Witness ==
    /\ pc = "master_normalize"
    /\ Len(audio_buffers) = 2
    /\ \E k \in 1..2 :
          /\ Len(audio_buffers[k]) < Len(master_buffer)
          /\ ~IsSilent(audio_buffers[k])
    /\ ~IsSilent(master_buffer)

\* seconds * Second(tpb) the clock would gain for the same message at
\* twice the tempo
ElapsedAtDouble(m) == tick2second(m.time, ticks_per_beat, bpm2tempo(2 * tempo))

C7_FailureBeforeMaster ==
    /\ exception # "none" =>
          /\ pc = "raised"
          /\ master_buffer = <<>>
          /\ ~exported
    /\ pc \in {"master_normalize", "export", "done"} =>
          /\ exception = "none"
          /\ Len(audio_buffers) = n_sources

\* C7 witness: a time-stretch failure on a later note of a source whose
\* track already holds an earlier note
C7_Witness ==
    /\ exception = "time_stretch"
    /\ pc = "raised"
    /\ ~IsSilent(audio_buffer)

\* C8: every emitted instance ends no earlier than it starts; a note of
\* duration <= 0 is passed over with no DSP call and no change to the track.
C8_DegenerateSkipped ==
    /\ [](\A k \in DOMAIN note_events : note_events[k][3] >= note_events[k][2])
    /\ [][(pc = "notes" /\ HasNote /\ Duration <= 0) =>
            /\ dsp_calls' = dsp_calls
            /\ audio_buffer' = audio_buffer
            /\ exception' = "none"
            /\ pc' = "notes"
            /\ note_i' = note_i + 1]_vars

\* C8 witness: a zero-duration first note was passed over
C8_Witness ==
    /\ pc = "notes"
    /\ note_i = 2
    /\ note_events[1][3] = note_events[1][2]
    /\ dsp_calls = 0
    /\ IsSilent(audio_buffer)

\* the segments placed so far add up at index i to
RECURSIVE OverlapSum(_, _)
OverlapSum(ks, i) ==
    IF ks = {} THEN Zero
    ELSE LET k == CHOOSE x \in ks : TRUE
             g == segments[k]
         IN  RAdd(IF g.start < i /\ i <= g.start + Len(g.samples)
                  THEN g.samples[i - g.start] ELSE Zero,
                  OverlapSum(ks \ {k}, i))

RECURSIVE FurthestEnd(_)
FurthestEnd(ks) ==
    IF ks = {} THEN 0
    ELSE LET k == CHOOSE x \in ks : TRUE
         IN  Max2(segments[k].start + Len(segments[k].samples),
                  FurthestEnd(ks \ {k}))

Span == CHOOSE t \in {note_events[k][3] : k \in DOMAIN note_events} :
            \A k \in DOMAIN note_events : note_events[k][3] <= t

\* int(sample_rate * (span + 1)), or int(sample_rate * 61) without instance
ExpectedLength ==
    IF note_events = <<>> THEN sample_rate * 61
    ELSE (sample_rate * (Span + Second(ticks_per_beat))) \div Second(ticks_per_beat)

\* C10: from allocation to return the track buffer keeps its initial length
\* int(sample_rate * (span + 1)), and every segment ends inside it, so the
\* growth branch is never taken.
C10_NoGrowth ==
    /\ pc \in {"notes", "fit", "place", "normalize", "return"} =>
          Len(audio_buffer) = ExpectedLength
    /\ pc = "place" =>
          StartSample(Note[2], sample_rate, ticks_per_beat) + Len(processed_audio)
              <= Len(audio_buffer)

\* C10 witness: the segment of the note that ends last is about to be placed
C10_Witness ==
    /\ pc = "place"
    /\ Len(note_events) = 2
    /\ Note[3] = Span
    /\ Len(processed_audio) > 0

====
